---- MODULE Spec2Model ----
\* Model of tools/convert_logo_raw.py: main() and convert_logo_to_raw().
\* The pipeline is decode -> (scale) -> centre -> paste -> flatten -> encode.
EXTENDS Integers, Sequences, FiniteSets, TLC

\* ---------------------------------------------------------------------------
\* Python float arithmetic (IEEE-754 binary64, round to nearest, ties to even).
\* Line 37 computes  min(width / logo_width, height / logo_height) * 0.8  and
\* lines 38-39 compute int(logo_width * scale): all of it in binary64, whose
\* roundings decide the resized size, so the arithmetic is modelled bit-exactly.
\* A positive float is [m |-> <<l0,l1,l2,l3,l4>>, e |-> E]: the 53-bit significand
\* M = l0 + l1*2^13 + l2*2^26 + l3*2^39 + l4*2^52 with l4 = 1, and the value M * 2^E.
\* ---------------------------------------------------------------------------
Limb == 2^13
HalfLimb == 2^12

RECURSIVE Pow2(_)
Pow2(n) == IF n = 0 THEN 1 ELSE 2 * Pow2(n - 1)

\* Number of bits of n >= 1.
RECURSIVE BitLen(_)
BitLen(n) == IF n <= 1 THEN 1 ELSE 1 + BitLen(n \div 2)

\* Carry propagation over a little-endian sequence of limb sums.
RECURSIVE Carry(_, _)
Carry(s, c) ==
    IF s = <<>> THEN (IF c = 0 THEN <<>> ELSE <<c>>)
    ELSE <<(Head(s) + c) % Limb>> \o Carry(Tail(s), (Head(s) + c) \div Limb)

\* Significand + 1 (round up); a carry out of bit 52 renormalises to 2^52.
RoundUp(f) ==
    LET s == Carry(<<f.m[1] + 1, f.m[2], f.m[3], f.m[4], f.m[5]>>, 0)
    IN  IF s[5] = 2 THEN [m |-> <<0, 0, 0, 0, 1>>, e |-> f.e + 1]
        ELSE [m |-> s, e |-> f.e]

\* Round to nearest, ties to even: f is the truncated significand, rnd the first
\* dropped bit, sticky whether any later dropped bit is set.
RoundNearestEven(f, rnd, sticky) ==
    IF rnd /\ (sticky \/ f.m[1] % 2 = 1) THEN RoundUp(f) ELSE f

\* float(n) for an integer 1 <= n < 2^13 (exact).
FromInt(n) ==
    LET k == BitLen(n) - 1
    IN  [m |-> <<0, 0, 0, (n - Pow2(k)) * Pow2(13 - k), 1>>, e |-> k - 52]

\* a / b scaled so that 1 <= a'/b' < 2: <<a', b', k>> with a/b = (a'/b') * 2^k.
RECURSIVE NormQuot(_, _, _)
NormQuot(a, b, k) ==
    IF a < b THEN NormQuot(2 * a, b, k - 1)
    ELSE IF a >= 2 * b THEN NormQuot(a, 2 * b, k + 1)
    ELSE <<a, b, k>>

\* Python's int / int (true division): the correctly rounded quotient.
TrueDiv(a, b) ==
    LET n  == NormQuot(a, b, 0)
        d  == n[2]
        r4 == n[1] - d
        l3 == (r4 * Limb) \div d
        r3 == (r4 * Limb) % d
        l2 == (r3 * Limb) \div d
        r2 == (r3 * Limb) % d
        l1 == (r2 * Limb) \div d
        r1 == (r2 * Limb) % d
        l0 == (r1 * Limb) \div d
        r0 == (r1 * Limb) % d
        t  == [m |-> <<l0, l1, l2, l3, 1>>, e |-> n[3] - 52]
    IN  RoundNearestEven(t, 2 * r0 >= d, 2 * r0 > d)

\* float * float.
FMul(f, g) ==
    LET a == f.m
        b == g.m
        P(k) == LET I == {i \in 1..5 : k + 2 - i \in 1..5}
                    S[J \in SUBSET I] ==
                        IF J = {} THEN 0
                        ELSE LET i == CHOOSE j \in J : TRUE
                             IN  a[i] * b[k + 2 - i] + S[J \ {i}]
                IN  S[I]
        p == Carry(<<P(0), P(1), P(2), P(3), P(4), P(5), P(6), P(7), P(8)>>, 0)
        lowNonZero == p[1] # 0 \/ p[2] # 0 \/ p[3] # 0
        e0 == f.e + g.e + 52
    IN  IF p[9] = 1
        THEN RoundNearestEven([m |-> <<p[5], p[6], p[7], p[8], p[9]>>, e |-> e0],
                              p[4] >= HalfLimb,
                              lowNonZero \/ p[4] % HalfLimb # 0)
        ELSE RoundNearestEven(
                 [m |-> <<p[5] \div 2 + (p[6] % 2) * HalfLimb,
                          p[6] \div 2 + (p[7] % 2) * HalfLimb,
                          p[7] \div 2 + (p[8] % 2) * HalfLimb,
                          p[8] \div 2 + (p[9] % 2) * HalfLimb,
                          p[9] \div 2>>, e |-> e0 + 1],
                 p[5] % 2 = 1,
                 lowNonZero \/ p[4] # 0)

\* f < g for positive floats.
FLess(f, g) ==
    \/ f.e < g.e
    \/ /\ f.e = g.e
       /\ \E i \in 1..5 : /\ f.m[i] < g.m[i]
                          /\ \A j \in (i + 1)..5 : f.m[j] = g.m[j]

\* Python's min(a, b): b if b < a, else a.
FMin(f, g) == IF FLess(g, f) THEN g ELSE f

\* int(f): truncation toward zero, for f < 2^14.
FTrunc(f) ==
    LET k == f.e + 52
    IN  IF k < 0 THEN 0
        ELSE f.m[5] * Pow2(k) + f.m[4] \div Pow2(13 - k)

\* Variants of F08: the float 0.9, and no margin at all (the float 1.0).
F09 == [m |-> <<3277, 1638, 4915, 6553, 1>>, e |-> -53]
FOne == [m |-> <<0, 0, 0, 0, 1>>, e |-> -52]

\* The literal 0.8 of line 37: 0x1.999999999999ap-1.
F08 == [m |-> <<6554, 3276, 1638, 4915, 1>>, e |-> -53]

\* ---------------------------------------------------------------------------
\* Bounds of the model and the program's defaults.
\* ---------------------------------------------------------------------------
MaxCanvas == 3
MaxLogo == 4
GeomMaxCanvas == 9
GeomMaxLogo == 25
\* def convert_logo_to_raw(..., width: int = 1920, height: int = 1200)
DefaultWidth == 1920
DefaultHeight == 1200

\* ---------------------------------------------------------------------------
\* Images.  A decoded logo is [size, mode, hasAlpha, pat, loaded]; its pixels are
\* a diagonal pattern over Palette starting at index pat.  hasAlpha says whether
\* the file carried an alpha channel (an RGB file gets alpha 255 from convert).
\* ---------------------------------------------------------------------------
Palette == << <<255, 0, 0, 255>>, <<10, 20, 30, 0>>, <<0, 128, 255, 128>> >>
Patterns == 0..(Len(Palette) - 1)
White == <<255, 255, 255, 255>>

NoImage == [size |-> <<0, 0>>, mode |-> "none", hasAlpha |-> FALSE, pat |-> 0,
            loaded |-> FALSE]
NoFile == [kind |-> "none", mode |-> "none", size |-> <<0, 0>>, pat |-> 0]
NoFloat == [m |-> <<0, 0, 0, 0, 0>>, e |-> 0]
Absent == <<-1>>
Stale == <<7, 7, 7>>

RGBOf(c) == <<c[1], c[2], c[3]>>

\* logo.load()[i, j] of the logo image.
LogoPixel(img, i, j) ==
    LET c == Palette[((i + j + img.pat) % Len(Palette)) + 1]
    IN  IF img.mode = "RGB" THEN RGBOf(c)
        ELSE IF img.hasAlpha THEN c
        ELSE <<c[1], c[2], c[3], 255>>

\* Image.new('RGBA', (width, height), (255, 255, 255, 255)): a canvas is its fill
\* colour plus the pixels painted over it.
NewImage(w, h) == [size |-> <<w, h>>, mode |-> "RGBA", fill |-> White, over |-> <<>>]

\* pixels[col, row] of the canvas.
CanvasPixel(bg, c, r) ==
    LET p == IF <<c, r>> \in DOMAIN bg.over THEN bg.over[<<c, r>>] ELSE bg.fill
    IN  IF bg.mode = "RGB" THEN RGBOf(p) ELSE p

\* Pillow's 8-bit blend: round((in1 * (255 - mask) + in2 * mask) / 255).
Div255(a) == (((a + 128) \div 256) + (a + 128)) \div 256
\* Variant of Blend with the two weights exchanged.
BlendSwapped(mask, in1, in2) == Div255(in1 * mask + in2 * (255 - mask))
Blend(mask, in1, in2) == Div255(in1 * (255 - mask) + in2 * mask)

\* background.paste(logo, (px, py), logo): every band of the canvas is blended
\* with the logo under the logo's alpha; the box is clipped to the canvas.
PasteOver(bg, img, px, py) ==
    LET box == {q \in (0..(bg.size[1] - 1)) \X (0..(bg.size[2] - 1)) :
                   /\ q[1] - px \in 0..(img.size[1] - 1)
                   /\ q[2] - py \in 0..(img.size[2] - 1)}
    IN  [q \in box |->
            LET s == LogoPixel(img, q[1] - px, q[2] - py)
                d == CanvasPixel(bg, q[1], q[2])
            IN  <<Blend(s[4], d[1], s[1]), Blend(s[4], d[2], s[2]),
                  Blend(s[4], d[3], s[3]), Blend(s[4], d[4], s[4])>>]

\* ---------------------------------------------------------------------------
\* Geometry (lines 35-45).
\* ---------------------------------------------------------------------------
\* Variants of NeedsScaling: 'and' for 'or', and '>=' for '>'.
NeedsScalingBoth(lw, lh, w, h) == lw > w /\ lh > h
NeedsScalingGe(lw, lh, w, h) == lw >= w \/ lh >= h

\* if logo_width > width or logo_height > height
NeedsScaling(lw, lh, w, h) == lw > w \/ lh > h

\* scale = min(width / logo_width, height / logo_height) * 0.8
ScaleFactor(lw, lh, w, h) == FMul(FMin(TrueDiv(w, lw), TrueDiv(h, lh)), F08)

\* int(n * scale)
ScaledLen(n, sc) == FTrunc(FMul(FromInt(n), sc))

\* (total - part) // 2
CentreOffset(total, part) == (total - part) \div 2

\* ---------------------------------------------------------------------------
\* Encoding (lines 58-61).
\* ---------------------------------------------------------------------------
\* (r << 16) | (g << 8) | b for 8-bit channels.
PixelValue(r, g, b) == r * 65536 + g * 256 + b

\* Variant of PackLE: big-endian, struct.pack('>I', v).
PackBE(v) ==
    <<(v \div 16777216) % 256, (v \div 65536) % 256, (v \div 256) % 256, v % 256>>

\* struct.pack('<I', v)
PackLE(v) ==
    <<v % 256, (v \div 256) % 256, (v \div 65536) % 256, (v \div 16777216) % 256>>

\* ---------------------------------------------------------------------------
\* State.
\* ---------------------------------------------------------------------------
VARIABLES
    pc,            \* position in main() / convert_logo_to_raw()
    status,        \* process exit status, -1 while running
    err,           \* the failure that ended the run, "none" otherwise
    width, height, \* target canvas size
    inputExists,   \* os.path.exists(input_path)
    src,           \* the input file: kind, mode, size, pixel pattern
    outFile,       \* bytes of the output file, Absent when it does not exist
    outFile0,      \* the output file as it was before the run
    inHandle,      \* file object held by Image.open: "none", "open", "closed"
    outHandle,     \* file object f of line 54: "none", "open", "closed"
    background, logo,
    logo_width, logo_height,
    scaled,        \* whether the body of the if of line 35 ran
    scale, new_width, new_height,
    x, y,
    row, col,
    file_size

params == <<width, height, inputExists, outFile0>>
files == <<outFile, inHandle, outHandle>>
geom == <<logo_width, logo_height, scaled, scale, new_width, new_height, x, y>>
loop == <<row, col, file_size>>
vars == <<pc, status, err, params, src, files, background, logo, geom, loop>>

\* An uncaught exception: the interpreter prints the traceback and exits with 1.
Raise(e) == pc' = "exit" /\ status' = 1 /\ err' = e
Goto(l) == pc' = l /\ UNCHANGED <<status, err>>

Locals0 ==
    /\ logo_width = 0 /\ logo_height = 0 /\ scaled = FALSE /\ scale = NoFloat
    /\ new_width = 0 /\ new_height = 0 /\ x = 0 /\ y = 0
    /\ row = 0 /\ col = 0 /\ file_size = 0

Init ==
    /\ pc = "main" /\ status = -1 /\ err = "none"
    /\ width \in 1..MaxCanvas /\ height \in 1..MaxCanvas
    /\ inputExists \in BOOLEAN
    /\ src = NoFile
    /\ outFile0 \in {Absent, Stale} /\ outFile = outFile0
    /\ inHandle = "none" /\ outHandle = "none"
    /\ background = NewImage(0, 0) /\ logo = NoImage
    /\ Locals0

\* Variant of MainCheck without the existence check.
MainNoCheck ==
    /\ pc = "main"
    /\ Goto("new_background")
    /\ UNCHANGED <<params, src, files, background, logo, geom, loop>>

\* main(), lines 72-80: the existence check and the call.
MainCheck ==
    /\ pc = "main"
    /\ IF ~inputExists
       THEN pc' = "exit" /\ status' = 1 /\ err' = "SourceNotFound"
       ELSE Goto("new_background")
    /\ UNCHANGED <<params, src, files, background, logo, geom, loop>>

\* line 22
NewBackground ==
    /\ pc = "new_background"
    /\ background' = NewImage(width, height)
    /\ Goto("open")
    /\ UNCHANGED <<params, src, files, logo, geom, loop>>

\* line 25: Image.open identifies the file and reads its header; the pixel data
\* stays unread and the file stays open.  A file that is no image is closed again
\* and the call raises.
OpenLogo ==
    /\ pc = "open"
    /\ \E k \in {"unidentified", "truncated", "ok"}, m \in {"RGB", "RGBA"},
          w \in 1..MaxLogo, h \in 1..MaxLogo, p \in Patterns :
          /\ src' = [kind |-> k, mode |-> m, size |-> <<w, h>>, pat |-> p]
          /\ IF k = "unidentified"
             THEN /\ Raise("DecodeError")
                  /\ inHandle' = "closed"
                  /\ UNCHANGED logo
             ELSE /\ Goto("convert")
                  /\ inHandle' = "open"
                  /\ logo' = [size |-> <<w, h>>, mode |-> m, hasAlpha |-> m = "RGBA",
                              pat |-> p, loaded |-> FALSE]
    /\ UNCHANGED <<params, outFile, outHandle, background, geom, loop>>

\* logo.load(): reads the pixel data on first use and then closes the file; when
\* the data cannot be decoded it raises and the file object is left as it is.
LoadFails == ~logo.loaded /\ src.kind = "truncated"
Loaded(img) == [img EXCEPT !.loaded = TRUE]
HandleAfterLoad == IF logo.loaded THEN inHandle ELSE "closed"

\* lines 28-29
ConvertRGBA ==
    /\ pc = "convert"
    /\ IF logo.mode # "RGBA"
       THEN IF LoadFails
            THEN Raise("DecodeError") /\ UNCHANGED <<logo, inHandle>>
            ELSE /\ logo' = [Loaded(logo) EXCEPT !.mode = "RGBA"]
                 /\ inHandle' = HandleAfterLoad
                 /\ Goto("size")
       ELSE Goto("size") /\ UNCHANGED <<logo, inHandle>>
    /\ UNCHANGED <<params, src, outFile, outHandle, background, geom, loop>>

\* line 32
GetSize ==
    /\ pc = "size"
    /\ logo_width' = logo.size[1]
    /\ logo_height' = logo.size[2]
    /\ Goto("scale")
    /\ UNCHANGED <<params, src, files, background, logo, scaled, scale, new_width,
                   new_height, x, y, loop>>

\* lines 35-39
ComputeScale ==
    /\ pc = "scale"
    /\ IF NeedsScaling(logo_width, logo_height, width, height)
       THEN LET sc == ScaleFactor(logo_width, logo_height, width, height)
            IN  /\ scale' = sc
                /\ new_width' = ScaledLen(logo_width, sc)
                /\ new_height' = ScaledLen(logo_height, sc)
                /\ scaled' = TRUE
                /\ Goto("resize")
       ELSE Goto("centre") /\ UNCHANGED <<scaled, scale, new_width, new_height>>
    /\ UNCHANGED <<params, src, files, background, logo, logo_width, logo_height,
                   x, y, loop>>

\* lines 40-41: resize loads the logo, rejects an empty target size ("height and
\* width must be > 0") and otherwise yields a resampled image of that size.
Resize ==
    /\ pc = "resize"
    /\ IF LoadFails
       THEN /\ Raise("DecodeError")
            /\ UNCHANGED <<logo, inHandle, logo_width, logo_height>>
       ELSE IF new_width < 1 \/ new_height < 1
       THEN /\ Raise("ResizeError")
            /\ logo' = Loaded(logo)
            /\ inHandle' = HandleAfterLoad
            /\ UNCHANGED <<logo_width, logo_height>>
       ELSE /\ \E p \in Patterns :
                 logo' = [Loaded(logo) EXCEPT !.size = <<new_width, new_height>>,
                                              !.pat = p]
            /\ inHandle' = HandleAfterLoad
            /\ logo_width' = new_width
            /\ logo_height' = new_height
            /\ Goto("centre")
    /\ UNCHANGED <<params, src, outFile, outHandle, background, scaled, scale,
                   new_width, new_height, x, y, loop>>

\* lines 44-45
Centre ==
    /\ pc = "centre"
    /\ x' = CentreOffset(width, logo_width)
    /\ y' = CentreOffset(height, logo_height)
    /\ Goto("paste")
    /\ UNCHANGED <<params, src, files, background, logo, logo_width, logo_height,
                   scaled, scale, new_width, new_height, loop>>

\* line 48
Paste ==
    /\ pc = "paste"
    /\ IF LoadFails
       THEN Raise("DecodeError") /\ UNCHANGED <<logo, inHandle, background>>
       ELSE /\ logo' = Loaded(logo)
            /\ inHandle' = HandleAfterLoad
            /\ background' = [background EXCEPT !.over = PasteOver(background, logo, x, y)]
            /\ Goto("flatten")
    /\ UNCHANGED <<params, src, outFile, outHandle, geom, loop>>

\* line 51
Flatten ==
    /\ pc = "flatten"
    /\ background' = [background EXCEPT !.mode = "RGB"]
    /\ Goto("open_out")
    /\ UNCHANGED <<params, src, files, logo, geom, loop>>

\* lines 54-55: open(output_path, 'wb') creates or truncates the file, or raises.
OpenOutput ==
    /\ pc = "open_out"
    /\ \/ /\ outFile' = <<>>
          /\ outHandle' = "open"
          /\ Goto("write")
       \/ /\ Raise("WriteError")
          /\ UNCHANGED <<outFile, outHandle>>
    /\ UNCHANGED <<params, src, inHandle, background, logo, geom, loop>>

\* Variant of NextPos whose inner loop runs over range(height).
NextPosSwapped(r, c) == IF c + 1 < height THEN <<r, c + 1>> ELSE <<r + 1, 0>>

\* The position after (r, c) in  for row in range(height): for col in range(width).
NextPos(r, c) == IF c + 1 < width THEN <<r, c + 1>> ELSE <<r + 1, 0>>

\* lines 56-61, one pixel; a failing write leaves the with block, which closes f.
WritePixel ==
    /\ pc = "write"
    /\ row < height
    /\ \/ LET p == CanvasPixel(background, col, row)
              n == NextPos(row, col)
          IN  /\ outFile' = outFile \o PackLE(PixelValue(p[1], p[2], p[3]))
              /\ row' = n[1]
              /\ col' = n[2]
              /\ Goto("write")
              /\ UNCHANGED outHandle
       \/ /\ Raise("WriteError")
          /\ outHandle' = "closed"
          /\ UNCHANGED <<outFile, row, col>>
    /\ UNCHANGED <<params, src, inHandle, background, logo, geom, file_size>>

\* end of the with block of line 54
CloseOutput ==
    /\ pc = "write"
    /\ row >= height
    /\ outHandle' = "closed"
    /\ Goto("report")
    /\ UNCHANGED <<params, src, outFile, inHandle, background, logo, geom, loop>>

\* lines 64-69 and main's return 0 (line 81)
Report ==
    /\ pc = "report"
    /\ file_size' = width * height * 4
    /\ pc' = "exit" /\ status' = 0 /\ UNCHANGED err
    /\ UNCHANGED <<params, src, files, background, logo, geom, row, col>>

Next ==
    \/ MainCheck \/ NewBackground \/ OpenLogo \/ ConvertRGBA \/ GetSize
    \/ ComputeScale \/ Resize \/ Centre \/ Paste \/ Flatten \/ OpenOutput
    \/ WritePixel \/ CloseOutput \/ Report

Spec == Init /\ [][Next]_vars

\* ---------------------------------------------------------------------------
\* The placement computation alone (lines 32-45), from the state in which the
\* logo has been opened, over larger sizes and the default canvas.
\* ---------------------------------------------------------------------------
ScenarioLogos == {<<4000, 4000>>, <<1, 4000>>, <<2568, 1200>>, <<1920, 1200>>,
                  <<1921, 1200>>, <<640, 480>>}
GeomInputs ==
    ((1..GeomMaxCanvas) \X (1..GeomMaxCanvas) \X (1..GeomMaxLogo) \X (1..GeomMaxLogo))
    \cup {<<DefaultWidth, DefaultHeight, s[1], s[2]>> : s \in ScenarioLogos}
    \cup {<<200, 200, 100, 100>>}

InitGeom ==
    /\ pc = "size" /\ status = -1 /\ err = "none"
    /\ \E g \in GeomInputs :
          /\ width = g[1] /\ height = g[2]
          /\ src = [kind |-> "ok", mode |-> "RGBA", size |-> <<g[3], g[4]>>, pat |-> 0]
          /\ logo = [size |-> <<g[3], g[4]>>, mode |-> "RGBA", hasAlpha |-> TRUE,
                     pat |-> 0, loaded |-> FALSE]
          /\ background = NewImage(g[1], g[2])
    /\ inputExists = TRUE
    /\ outFile0 = Absent /\ outFile = outFile0
    /\ inHandle = "open" /\ outHandle = "none"
    /\ Locals0

NextGeom == GetSize \/ ComputeScale \/ Resize \/ Centre

SpecGeom == InitGeom /\ [][NextGeom]_vars

\* ---------------------------------------------------------------------------
\* Properties.
\* ---------------------------------------------------------------------------
Succeeded == pc = "exit" /\ status = 0

\* The output file was opened by this run (created or truncated at line 54).
OutputOpened == outHandle # "none"

\* Bytes 4k+1 .. 4k+4 of the output file, k counted from 0.
OutWord(k) == <<outFile[4 * k + 1], outFile[4 * k + 2], outFile[4 * k + 3],
                outFile[4 * k + 4]>>

\* The colour <<R, G, B>> read back from the output at (c, r): bytes 2, 1, 0.
Decoded(c, r) ==
    LET w == OutWord(r * width + c) IN <<w[3], w[2], w[1]>>

InFootprint(c, r) ==
    /\ c - x \in 0..(logo_width - 1)
    /\ r - y \in 0..(logo_height - 1)

\* C1: a call that completes has written exactly width * height * 4 bytes, one
\* 4-byte value per canvas pixel, whatever the source size and whether or not the
\* scaling step ran; while the loop runs, 4 bytes per pixel already visited.
C1_OutputLength ==
    /\ (pc = "write" /\ OutputOpened) => Len(outFile) = 4 * (row * width + col)
    /\ pc = "report" => Len(outFile) = width * height * 4
    /\ Succeeded => /\ Len(outFile) = width * height * 4
                    /\ file_size = Len(outFile)
                    /\ row = height

C1_Witness ==
    /\ Succeeded /\ scaled /\ width # height
    /\ src.size[1] > width /\ Len(outFile) = 4 * width * height

\* C2: the 4 bytes at offset 4 * (row * width + col) are the little-endian
\* encoding of R * 65536 + G * 256 + B of the canvas pixel (col, row): byte 0 = B,
\* byte 1 = G, byte 2 = R, byte 3 = 0, rows first, and decoding gives back the colour.
C2_PixelRoundTrip ==
    (OutputOpened /\ pc \in {"write", "report", "exit"}) =>
        \A k \in 0..((Len(outFile) \div 4) - 1) :
            LET c == k % width
                r == k \div width
                p == CanvasPixel(background, c, r)
                w == OutWord(k)
            IN  /\ w = <<p[3], p[2], p[1], 0>>
                /\ w[1] + 256 * w[2] + 65536 * w[3] + 16777216 * w[4]
                       = p[1] * 65536 + p[2] * 256 + p[3]
                /\ Decoded(c, r) = <<p[1], p[2], p[3]>>

C2_Witness ==
    /\ Succeeded /\ width >= 2 /\ height >= 2
    /\ \E c \in 0..(width - 1), r \in 1..(height - 1) :
          LET p == CanvasPixel(background, c, r)
          IN  p[1] # p[3] /\ p[2] # p[1] /\ p[2] # p[3] /\ Decoded(c, r) = p

\* C3: a source that fits the canvas (src_w <= W and src_h <= H) is not scaled,
\* keeps its native size and is placed at floor((W - src_w) / 2),
\* floor((H - src_h) / 2); a 100x100 logo on a 200x200 canvas goes to (50, 50).
C3_FitsKeepsSize ==
    (pc = "paste" /\ src.size[1] <= width /\ src.size[2] <= height) =>
        /\ ~scaled
        /\ logo.size = src.size
        /\ <<logo_width, logo_height>> = src.size
        /\ 2 * x <= width - src.size[1] /\ width - src.size[1] <= 2 * x + 1
        /\ 2 * y <= height - src.size[2] /\ height - src.size[2] <= 2 * y + 1
        /\ (width = 200 /\ height = 200 /\ src.size = <<100, 100>>) => (x = 50 /\ y = 50)

C3_Witness ==
    /\ pc = "paste" /\ width = 200 /\ height = 200 /\ src.size = <<100, 100>>
    /\ x = 50 /\ y = 50 /\ ~scaled

\* Exact values of src_w * s and src_h * s for s = min(W/src_w, H/src_h) * 0.8 in
\* real arithmetic, as fractions <<numerator, denominator>>.
WidthLimited == width * src.size[2] <= height * src.size[1]
ExactW == IF WidthLimited THEN <<4 * width, 5>>
          ELSE <<4 * height * src.size[1], 5 * src.size[2]>>
ExactH == IF WidthLimited THEN <<4 * width * src.size[2], 5 * src.size[1]>>
          ELSE <<4 * height, 5>>
Floor(q) == q[1] \div q[2]
IsWhole(q) == q[1] % q[2] = 0

\* The float 0.24.
F024 == [m |-> <<7864, 7208, 5242, 7536, 1>>, e |-> -55]

ScenarioBig == width = DefaultWidth /\ height = DefaultHeight /\ src.size = <<4000, 4000>>

\* C4 as stated: when the source exceeds the canvas, the target size is
\* floor(src_w * s), floor(src_h * s) with s = min(W/src_w, H/src_h) * 0.8, and it
\* does not exceed the canvas.
C4_ExactFloor ==
    scaled => /\ new_width = Floor(ExactW)
              /\ new_height = Floor(ExactH)
              /\ new_width <= width /\ new_height <= height

\* C4 amended: the factor and the products are binary64 values, so the target size
\* is the exact floor, or one less where the exact product is a whole number; it
\* never exceeds the canvas; 4000x4000 on 1920x1200 gives 0.24, 960x960, (480, 120).
C4_FloatFloor ==
    /\ scaled =>
          /\ new_width \in {Floor(ExactW), Floor(ExactW) - 1}
          /\ new_height \in {Floor(ExactH), Floor(ExactH) - 1}
          /\ ~IsWhole(ExactW) => new_width = Floor(ExactW)
          /\ ~IsWhole(ExactH) => new_height = Floor(ExactH)
          /\ new_width >= 0 /\ new_height >= 0
          /\ new_width <= width /\ new_height <= height
    /\ (ScenarioBig /\ pc \in {"resize", "centre", "paste"}) =>
          scale = F024 /\ new_width = 960 /\ new_height = 960
    /\ (ScenarioBig /\ pc = "paste") =>
          logo.size = <<960, 960>> /\ x = 480 /\ y = 120

C4_Witness ==
    /\ ScenarioBig /\ pc = "paste" /\ scaled
    /\ new_width = 960 /\ x = 480 /\ y = 120

\* C5: when the logo is pasted the offsets are not negative and the footprint lies
\* inside the canvas, because after the scaling step the logo is no larger than
\* the canvas.
C5_FootprintInside ==
    /\ pc \in {"centre", "paste"} =>
          /\ logo.size = <<logo_width, logo_height>>
          /\ logo_width <= width /\ logo_height <= height
    /\ pc = "paste" =>
          /\ x >= 0 /\ y >= 0
          /\ x + logo_width <= width /\ y + logo_height <= height

C5_Witness ==
    /\ pc = "paste" /\ scaled /\ src.size[1] > width /\ src.size[2] <= height
    /\ x >= 0 /\ x + logo_width <= width

\* C6 as stated: whenever the logo was scaled it touches no canvas edge, for every
\* canvas size.
C6_NeverTouchesEdge ==
    (pc = "paste" /\ scaled) =>
        /\ x >= 1 /\ y >= 1
        /\ x + logo_width <= width - 1 /\ y + logo_height <= height - 1

\* C6 amended: a scaled logo is at most 80% of the canvas in each dimension, and
\* in every dimension of at least 6 pixels it keeps at least one pixel of margin
\* on both sides.
C6_MarginFromSix ==
    /\ scaled => (5 * new_width <= 4 * width /\ 5 * new_height <= 4 * height)
    /\ (pc = "paste" /\ scaled) =>
          /\ 5 * logo_width <= 4 * width /\ 5 * logo_height <= 4 * height
          /\ width >= 6 => (x >= 1 /\ x + logo_width <= width - 1)
          /\ height >= 6 => (y >= 1 /\ y + logo_height <= height - 1)

C6_Witness ==
    /\ pc = "paste" /\ scaled /\ width = 6 /\ height >= 6
    /\ logo_width = 4 /\ x = 1 /\ y >= 1

\* C7: an output pixel to which the logo adds no opacity decodes to white: every
\* pixel outside the footprint, and every pixel inside it whose logo alpha is 0,
\* whatever its RGB; a logo pixel of alpha 255 gives exactly the logo's RGB.
C7_WhiteWhereNoOpacity ==
    Succeeded =>
        \A c \in 0..(width - 1), r \in 0..(height - 1) :
            IF ~InFootprint(c, r) THEN Decoded(c, r) = <<255, 255, 255>>
            ELSE LET s == LogoPixel(logo, c - x, r - y)
                 IN  /\ s[4] = 0 => Decoded(c, r) = <<255, 255, 255>>
                     /\ s[4] = 255 => Decoded(c, r) = RGBOf(s)

C7_Witness ==
    /\ Succeeded
    /\ \E c \in 0..(width - 1), r \in 0..(height - 1) : ~InFootprint(c, r)
    /\ \E c \in 0..(width - 1), r \in 0..(height - 1) :
          /\ InFootprint(c, r)
          /\ LogoPixel(logo, c - x, r - y) = <<10, 20, 30, 0>>
          /\ Decoded(c, r) = <<255, 255, 255>>
    /\ \E c \in 0..(width - 1), r \in 0..(height - 1) :
          /\ InFootprint(c, r)
          /\ LogoPixel(logo, c - x, r - y) = <<255, 0, 0, 255>>
          /\ Decoded(c, r) = <<255, 0, 0>>

\* C8: a missing input is detected before anything is decoded or composited, ends
\* with a nonzero status and leaves the output file as it was; a decode failure
\* comes before the output file is opened and leaves it as it was; only a
\* successful conversion ends with status 0.
C8_ErrorsLeaveOutput ==
    /\ ~inputExists =>
          /\ pc \in {"main", "exit"}
          /\ src = NoFile /\ logo = NoImage /\ background = NewImage(0, 0)
          /\ inHandle = "none" /\ outHandle = "none" /\ outFile = outFile0
          /\ pc = "exit" => (status = 1 /\ err = "SourceNotFound")
    /\ (pc = "exit" /\ err \in {"SourceNotFound", "DecodeError"}) =>
          /\ status # 0
          /\ outHandle = "none" /\ outFile = outFile0
    /\ (pc = "exit" /\ err # "none") => status # 0
    /\ Succeeded =>
          /\ err = "none" /\ inputExists /\ src.kind = "ok"
          /\ outHandle = "closed" /\ Len(outFile) = width * height * 4

C8_Witness ==
    /\ pc = "exit" /\ ~inputExists /\ err = "SourceNotFound" /\ status = 1
    /\ outFile0 = Stale /\ outFile = Stale

\* C9: at every exit of the run no file handle it opened is still open.
C9_HandlesClosed ==
    pc = "exit" => (inHandle # "open" /\ outHandle # "open")

\* C10: whenever the scaling step runs, the resize target is a non-empty size.
C10_TargetNonEmpty ==
    (pc = "resize" /\ scaled) => (new_width >= 1 /\ new_height >= 1)
====
